---- MODULE Spec2Model ----
(***************************************************************************)
(* Igneo monitor dashboard: the telemetry poller (fetchData, the mount     *)
(* effect and its cleanup) and the alert derivation (checkAlertStatus,     *)
(* isTempAlert, isHumidityAlert, isSmokeAlert) of the React component App. *)
(*                                                                         *)
(* JavaScript values are records tagged by their type in field t; strings  *)
(* are TLA+ strings and are read character by character where the code     *)
(* parses them.                                                            *)
(***************************************************************************)
EXTENDS Integers, Sequences, FiniteSets, TLC

VARIABLES lastData, historicalData, loading, error,
          effect, interval, cycles, started, lastSettled, lastOutcome, view,
          audio

vars == <<lastData, historicalData, loading, error,
          effect, interval, cycles, started, lastSettled, lastOutcome, view,
          audio>>

(***************************************************************************)
(* Bounds of the model.                                                    *)
(***************************************************************************)
\* number of fetch cycles (the mount call plus timer ticks) that are followed
MaxCycles == 3
\* sensor temperatures, in tenths of a degree, drawn around the threshold
MinTenths == 396
MaxTenths == 404
\* number of feeds in a history window
MaxWindow == 3

(***************************************************************************)
(* Program constants.                                                      *)
(***************************************************************************)
TEMP_CRITICA == 40
HUMEDAD_MAX == 80
HUMEDAD_MIN == 20

(***************************************************************************)
(* JavaScript values.                                                      *)
(***************************************************************************)
Null == [t |-> "null"]
Undefined == [t |-> "undefined"]
Str(s) == [t |-> "string", v |-> s]
Num(n) == [t |-> "number", v |-> n]
Bool(b) == [t |-> "boolean", v |-> b]
Arr(items) == [t |-> "array", items |-> items]
Obj(props) == [t |-> "object", props |-> props]

\* ToBoolean: what `!x`, `x ? a : b` and `x && y` test
Truthy(x) ==
    CASE x.t = "null" -> FALSE
      [] x.t = "undefined" -> FALSE
      [] x.t = "string" -> x.v # ""
      [] x.t = "number" -> x.v # 0
      [] x.t = "boolean" -> x.v
      [] OTHER -> TRUE

\* property read x.key on a value that is neither null nor undefined
Get(x, key) ==
    IF x.t = "object" /\ key \in DOMAIN x.props THEN x.props[key] ELSE Undefined

\* mutant of StrictNotEqualStr: a missing or null value compares as equal
StrictNotEqualStrIfPresent(x, lit) == x.t = "string" /\ x.v # lit

\* x !== 'NORMAL' style comparison of a value with a string literal
StrictNotEqualStr(x, lit) == ~(x.t = "string" /\ x.v = lit)

(***************************************************************************)
(* parseFloat.  The result is NaN, an infinity, or the decimal m * 10^e    *)
(* with its sign kept apart; decimals are exact.                           *)
(***************************************************************************)
NaN == [k |-> "nan"]
Inf(neg) == [k |-> "inf", neg |-> neg]
Fin(neg, m, e) == [k |-> "fin", neg |-> neg, m |-> m, e |-> e]

Digits == {"0", "1", "2", "3", "4", "5", "6", "7", "8", "9"}
WhiteSpace == {" ", "\t", "\n", "\r"}

Char(s, i) == IF i >= 1 /\ i <= Len(s) THEN SubSeq(s, i, i) ELSE ""

DigitVal(c) ==
    CASE c = "0" -> 0 [] c = "1" -> 1 [] c = "2" -> 2 [] c = "3" -> 3
      [] c = "4" -> 4 [] c = "5" -> 5 [] c = "6" -> 6 [] c = "7" -> 7
      [] c = "8" -> 8 [] c = "9" -> 9

RECURSIVE SkipWhiteSpace(_, _)
SkipWhiteSpace(s, i) ==
    IF Char(s, i) \in WhiteSpace THEN SkipWhiteSpace(s, i + 1) ELSE i

\* the index after the run of digits that starts at i
RECURSIVE ScanDigits(_, _)
ScanDigits(s, i) ==
    IF Char(s, i) \in Digits THEN ScanDigits(s, i + 1) ELSE i

\* the number written by the digits s[i..j-1], continuing from acc
RECURSIVE DigitsValue(_, _, _, _)
DigitsValue(s, i, j, acc) ==
    IF i >= j THEN acc ELSE DigitsValue(s, i + 1, j, acc * 10 + DigitVal(Char(s, i)))

StartsWithAt(s, i, lit) ==
    /\ i + Len(lit) - 1 <= Len(s)
    /\ SubSeq(s, i, i + Len(lit) - 1) = lit

\* the optional exponent part that follows the mantissa s[i1..mantEnd-1]
ParseExponent(s, neg, mant, nFrac, x0, x1) ==
    IF ScanDigits(s, x1) > x1
    THEN Fin(neg, mant,
             (IF Char(s, x0) = "-" THEN 0 - DigitsValue(s, x1, ScanDigits(s, x1), 0)
              ELSE DigitsValue(s, x1, ScanDigits(s, x1), 0)) - nFrac)
    ELSE Fin(neg, mant, 0 - nFrac)

ParseAfterMantissa(s, neg, mant, nFrac, mantEnd) ==
    IF Char(s, mantEnd) \in {"e", "E"}
    THEN ParseExponent(s, neg, mant, nFrac, mantEnd + 1,
                       IF Char(s, mantEnd + 1) \in {"+", "-"} THEN mantEnd + 2
                       ELSE mantEnd + 1)
    ELSE Fin(neg, mant, 0 - nFrac)

\* the digits s[i1..intEnd-1], then a "." and the digits up to fracEnd if hasDot
ParseMantissa(s, neg, i1, intEnd, hasDot, fracEnd) ==
    IF intEnd = i1 /\ (~hasDot \/ fracEnd = intEnd + 1) THEN NaN
    ELSE IF hasDot
    THEN ParseAfterMantissa(s, neg,
             DigitsValue(s, intEnd + 1, fracEnd, DigitsValue(s, i1, intEnd, 0)),
             fracEnd - (intEnd + 1), fracEnd)
    ELSE ParseAfterMantissa(s, neg, DigitsValue(s, i1, intEnd, 0), 0, intEnd)

ParseUnsigned(s, neg, i1, intEnd) ==
    IF StartsWithAt(s, i1, "Infinity") THEN Inf(neg)
    ELSE ParseMantissa(s, neg, i1, intEnd, Char(s, intEnd) = ".",
                       ScanDigits(s, intEnd + 1))

ParseSigned(s, i0, i1) == ParseUnsigned(s, Char(s, i0) = "-", i1, ScanDigits(s, i1))

\* StrDecimalLiteral: white space, sign, Infinity or digits [. digits] [exponent]
ParseFloatString(s) ==
    ParseSigned(s, SkipWhiteSpace(s, 1),
                IF Char(s, SkipWhiteSpace(s, 1)) \in {"+", "-"}
                THEN SkipWhiteSpace(s, 1) + 1 ELSE SkipWhiteSpace(s, 1))

\* ToString of the values a JSON body can hold in a field
JsToString(x) ==
    CASE x.t = "string" -> x.v
      [] x.t = "null" -> "null"
      [] x.t = "undefined" -> "undefined"
      [] x.t = "boolean" -> IF x.v THEN "true" ELSE "false"
      [] x.t = "number" -> ToString(x.v)
      [] OTHER -> "[object Object]"

parseFloat(x) == ParseFloatString(JsToString(x))

RECURSIVE Pow10(_)
Pow10(n) == IF n <= 0 THEN 1 ELSE 10 * Pow10(n - 1)

Signed(p) == IF p.neg THEN 0 - p.m ELSE p.m

\* p > n and p < n for a parsed number p and an integer n; false on NaN
GreaterThan(p, n) ==
    CASE p.k = "nan" -> FALSE
      [] p.k = "inf" -> ~p.neg
      [] OTHER -> IF p.e >= 0 THEN Signed(p) * Pow10(p.e) > n
                  ELSE Signed(p) > n * Pow10(0 - p.e)

LessThan(p, n) ==
    CASE p.k = "nan" -> FALSE
      [] p.k = "inf" -> p.neg
      [] OTHER -> IF p.e >= 0 THEN Signed(p) * Pow10(p.e) < n
                  ELSE Signed(p) < n * Pow10(0 - p.e)

Zero == Fin(FALSE, 0, 0)
(***************************************************************************)
(* Alert derivation.                                                       *)
(***************************************************************************)
CAUSE_NORMAL == "NORMAL"
CAUSE_SMOKE_TEMP == "ALERTA DE HUMO Y TEMPERATURA"
CAUSE_SMOKE == "ALERTA DE HUMO"
CAUSE_TEMP == "ALERTA DE TEMPERATURA"

\* mutant of TempExceeds: the comparison written >=
TempAtLeast(tempValue) ==
    tempValue # NaN /\ ~LessThan(tempValue, TEMP_CRITICA)

\* tempValue > TEMP_CRITICA
TempExceeds(tempValue) == GreaterThan(tempValue, TEMP_CRITICA)

\* mutant of CauseOf: the smoke branch tested before the combined one
CauseOfSmokeFirst(smokeAlert, tempAlert) ==
    IF smokeAlert THEN [isAlert |-> TRUE, cause |-> CAUSE_SMOKE]
    ELSE IF smokeAlert /\ tempAlert THEN [isAlert |-> TRUE, cause |-> CAUSE_SMOKE_TEMP]
    ELSE IF tempAlert THEN [isAlert |-> TRUE, cause |-> CAUSE_TEMP]
    ELSE [isAlert |-> FALSE, cause |-> CAUSE_NORMAL]

\* the if / else-if chain that picks the cause from the two flags
CauseOf(smokeAlert, tempAlert) ==
    IF smokeAlert /\ tempAlert THEN [isAlert |-> TRUE, cause |-> CAUSE_SMOKE_TEMP]
    ELSE IF smokeAlert THEN [isAlert |-> TRUE, cause |-> CAUSE_SMOKE]
    ELSE IF tempAlert THEN [isAlert |-> TRUE, cause |-> CAUSE_TEMP]
    ELSE [isAlert |-> FALSE, cause |-> CAUSE_NORMAL]

\* mutant of checkAlertStatus: an extreme humidity counted as a temperature alert
checkAlertStatusWithHumidity(data) ==
    IF ~Truthy(data) THEN [isAlert |-> FALSE, cause |-> CAUSE_NORMAL]
    ELSE LET tempValue == parseFloat(Get(data, "field1"))
             humidityValue == parseFloat(Get(data, "field2"))
             smokeStatus == Get(data, "field4")
             isTempAlert == \/ TempExceeds(tempValue)
                            \/ LessThan(humidityValue, HUMEDAD_MIN)
                            \/ GreaterThan(humidityValue, HUMEDAD_MAX)
             isSmokeAlert == StrictNotEqualStr(smokeStatus, "NORMAL")
         IN  CauseOf(isSmokeAlert, isTempAlert)

checkAlertStatus(data) ==
    IF ~Truthy(data) THEN [isAlert |-> FALSE, cause |-> CAUSE_NORMAL]
    ELSE LET tempValue == parseFloat(Get(data, "field1"))
             smokeStatus == Get(data, "field4")
             isTempAlert == TempExceeds(tempValue)
             isSmokeAlert == StrictNotEqualStr(smokeStatus, "NORMAL")
         IN  CauseOf(isSmokeAlert, isTempAlert)

\* the flags of the variant that derives them in the component body
tempValueOf(data) == IF Truthy(data) THEN parseFloat(Get(data, "field1")) ELSE Zero
humidityValueOf(data) == IF Truthy(data) THEN parseFloat(Get(data, "field2")) ELSE Zero
isTempAlertOf(data) == TempExceeds(tempValueOf(data))
isHumidityAlertOf(data) ==
    \/ LessThan(humidityValueOf(data), HUMEDAD_MIN)
    \/ GreaterThan(humidityValueOf(data), HUMEDAD_MAX)
\* lastData && lastData.field4 !== 'NORMAL'
isSmokeAlertOf(data) ==
    IF Truthy(data) THEN Bool(StrictNotEqualStr(Get(data, "field4"), "NORMAL"))
    ELSE data

\* loading ? ... : error ? ... : ...
StatusOf(l, e) ==
    IF l THEN "Loading" ELSE IF Truthy(e) THEN "Failed" ELSE "Ready"

\* what one render of the component derives from its state
Render(ld, l, e) ==
    [status |-> StatusOf(l, e),
     isAlert |-> checkAlertStatus(ld).isAlert,
     cause |-> checkAlertStatus(ld).cause,
     isTempAlert |-> isTempAlertOf(ld),
     isHumidityAlert |-> isHumidityAlertOf(ld),
     isSmokeAlert |-> isSmokeAlertOf(ld)]
(***************************************************************************)
(* What the two endpoints can answer.  A fetch either rejects or resolves  *)
(* to a response with an ok flag and a body; the body either fails to      *)
(* parse as JSON or parses to a value.                                     *)
(***************************************************************************)
Rejected == [kind |-> "rejected"]
Response(ok, body) == [kind |-> "response", ok |-> ok, body |-> body]
Unparsable == [t |-> "unparsable"]

Sample(f1, f2, f4) == Obj([field1 |-> f1, field2 |-> f2, field4 |-> f4])

\* bodies of the latest-sample endpoint that the poller is run against
LastBodies ==
    { Unparsable, Null, Num(-1), Obj([created_at |-> Str("t0")]),
      Sample(Null, Str("50"), Str("NORMAL")),
      Sample(Str(""), Str("50"), Str("NORMAL")),
      Sample(Str("abc"), Str("50"), Str("NORMAL")),
      Sample(Str("25.0"), Str("50"), Str("NORMAL")),
      Sample(Str("45"), Str("90"), Str("FIRE_DETECTED")) }

LastOutcomes ==
    {Rejected} \cup {Response(FALSE, Unparsable)}
               \cup {Response(TRUE, b) : b \in LastBodies}

Feed(at, f1) == Obj([created_at |-> Str(at), field1 |-> Str(f1)])

HistoryBodies ==
    { Unparsable, Null, Num(-1),
      Obj([feeds |-> Arr(<<>>)]),
      Obj([feeds |-> Arr(<<Feed("t1", "25.0"), Feed("t2", "45")>>)]) }

HistoryOutcomes ==
    {Rejected} \cup {Response(FALSE, Unparsable)}
               \cup {Response(TRUE, b) : b \in HistoryBodies}

(***************************************************************************)
(* Error messages (err.message).                                           *)
(***************************************************************************)
MSG_LAST_NOT_OK == Str("Error de red al obtener el último dato.")
MSG_EMPTY_CHANNEL == Str("Canal de ThingSpeak vacío o datos no disponibles.")
MSG_HISTORY_NOT_OK == Str("Error de red al obtener datos históricos.")
\* messages of the errors the runtime throws; their text depends on the browser
MSG_FETCH_REJECTED == Str("Failed to fetch")
MSG_JSON_SYNTAX == Str("Unexpected token < in JSON at position 0")
MSG_TYPE_ERROR == Str("Cannot read properties of null (reading 'feeds')")

(***************************************************************************)
(* The poller.  cycles[c] is the call of fetchData number c: where it is   *)
(* suspended (pc) and its locals lastRes and lastJson while it is running. *)
(* lastSettled and lastOutcome observe the poller without taking part in   *)
(* it: the call that last ran its final setError / setLoading(false), and  *)
(* whether it got there through the try block ("ok") or the catch block.   *)
(***************************************************************************)
CycleIds == 1..MaxCycles

IdleCycle == [pc |-> "idle", lastRes |-> Undefined, lastJson |-> Undefined]
\* the call has issued fetch(LAST_API_URL) and awaits it
StartedCycle == [pc |-> "awaitLast", lastRes |-> Undefined, lastJson |-> Undefined]
\* the call has returned; its locals are gone
DoneCycle == [pc |-> "done", lastRes |-> Undefined, lastJson |-> Undefined]

InFlight == {c \in CycleIds : cycles[c].pc \in {"awaitLast", "awaitHistory"}}

Init ==
    /\ lastData = Null
    /\ historicalData = Null
    /\ loading = TRUE
    /\ error = Null
    /\ effect = "pending"
    /\ interval = "none"
    /\ cycles = [c \in CycleIds |-> IdleCycle]
    /\ started = 0
    /\ lastSettled = 0
    /\ lastOutcome = "none"
    /\ audio = [playing |-> FALSE, loop |-> FALSE]
    /\ view = Render(Null, TRUE, Null)

\* fetchData() up to its first await
StartCycle ==
    /\ started' = started + 1
    /\ cycles' = [cycles EXCEPT ![started + 1] = StartedCycle]

\* the mount effect: fetchData(); setInterval(fetchData, 5000)
Mount ==
    /\ effect = "pending"
    /\ effect' = "active"
    /\ interval' = "active"
    /\ StartCycle
    /\ UNCHANGED <<lastData, historicalData, loading, error, lastSettled,
                   lastOutcome, view>>

\* mutant of Tick: the timer skips the call while an error is shown
TickUnlessFailed ==
    /\ interval = "active"
    /\ started < MaxCycles
    /\ ~Truthy(error)
    /\ StartCycle
    /\ UNCHANGED <<lastData, historicalData, loading, error, effect, interval,
                   lastSettled, lastOutcome, view>>

\* mutant of Tick: the call starts with setLoading(true)
TickReloading ==
    /\ interval = "active"
    /\ started < MaxCycles
    /\ StartCycle
    /\ loading' = TRUE
    /\ view' = Render(lastData, TRUE, error)
    /\ UNCHANGED <<lastData, historicalData, error, effect, interval,
                   lastSettled, lastOutcome>>

\* the interval fires and calls fetchData
Tick ==
    /\ interval = "active"
    /\ started < MaxCycles
    /\ StartCycle
    /\ UNCHANGED <<lastData, historicalData, loading, error, effect, interval,
                   lastSettled, lastOutcome, view>>

\* the cleanup of the effect: clearInterval(interval)
Unmount ==
    /\ effect = "active"
    /\ effect' = "cleaned"
    /\ interval' = "cleared"
    /\ UNCHANGED <<lastData, historicalData, loading, error, cycles, started,
                   lastSettled, lastOutcome, view>>

\* mutant of Catch: the error is swallowed instead of published
CatchSwallowing(c, message) ==
    /\ error' = Null
    /\ loading' = FALSE
    /\ cycles' = [cycles EXCEPT ![c] = DoneCycle]
    /\ lastSettled' = c
    /\ lastOutcome' = "failed"
    /\ view' = view
    /\ UNCHANGED <<lastData, historicalData, effect, interval, started>>

\* catch (err) { setError(err.message) }  setLoading(false)
Catch(c, message) ==
    /\ error' = message
    /\ loading' = FALSE
    /\ cycles' = [cycles EXCEPT ![c] = DoneCycle]
    /\ lastSettled' = c
    /\ lastOutcome' = "failed"
    /\ view' = Render(lastData, FALSE, message)
    /\ UNCHANGED <<lastData, historicalData, effect, interval, started>>

\* mutant of EmptyChannel: the field1 test left out
EmptyChannelNoFieldTest(lastJson) == ~Truthy(lastJson)

\* !lastJson || !lastJson.field1
EmptyChannel(lastJson) == ~Truthy(lastJson) \/ ~Truthy(Get(lastJson, "field1"))

\* the latest-sample fetch settles and fetchData resumes after its first await
ResumeLast(c, out) ==
    /\ cycles[c].pc = "awaitLast"
    /\ IF out.kind = "rejected" THEN Catch(c, MSG_FETCH_REJECTED)
       ELSE IF ~out.ok THEN Catch(c, MSG_LAST_NOT_OK)
       ELSE IF out.body = Unparsable THEN Catch(c, MSG_JSON_SYNTAX)
       ELSE IF EmptyChannel(out.body) THEN Catch(c, MSG_EMPTY_CHANNEL)
       ELSE /\ lastData' = out.body
            /\ cycles' = [cycles EXCEPT ![c] =
                             [pc |-> "awaitHistory", lastRes |-> out,
                              lastJson |-> out.body]]
            /\ view' = Render(out.body, loading, error)
            /\ UNCHANGED <<historicalData, loading, error, effect, interval,
                           started, lastSettled, lastOutcome>>

\* the history fetch settles and fetchData resumes after its second await
ResumeHistory(c, out) ==
    /\ cycles[c].pc = "awaitHistory"
    /\ IF out.kind = "rejected" THEN Catch(c, MSG_FETCH_REJECTED)
       ELSE IF ~out.ok THEN Catch(c, MSG_HISTORY_NOT_OK)
       ELSE IF out.body = Unparsable THEN Catch(c, MSG_JSON_SYNTAX)
       ELSE IF out.body.t \in {"null", "undefined"} THEN Catch(c, MSG_TYPE_ERROR)
       ELSE /\ historicalData' = Get(out.body, "feeds")
            /\ error' = Null
            /\ loading' = FALSE
            /\ cycles' = [cycles EXCEPT ![c] = DoneCycle]
            /\ lastSettled' = c
            /\ lastOutcome' = "ok"
            /\ view' = Render(lastData, FALSE, Null)
            /\ UNCHANGED <<lastData, effect, interval, started>>

\* the variants without an alarm never touch the audio element
Next ==
    \/ Mount /\ UNCHANGED audio
    \/ Tick /\ UNCHANGED audio
    \/ Unmount /\ UNCHANGED audio
    \/ \E c \in CycleIds, out \in LastOutcomes :
          ResumeLast(c, out) /\ UNCHANGED audio
    \/ \E c \in CycleIds, out \in HistoryOutcomes :
          ResumeHistory(c, out) /\ UNCHANGED audio

Spec == Init /\ [][Next]_vars

(***************************************************************************)
(* The alert derivation on its own: one cycle of the poller, run against   *)
(* a latest-sample endpoint that answers with any sample of Samples.       *)
(***************************************************************************)
\* how the channel writes a temperature of t tenths of a degree
TemperatureText(t) ==
    {ToString(t \div 10) \o "." \o ToString(t % 10)}
        \cup (IF t % 10 = 0 THEN {ToString(t \div 10)} ELSE {})

SampleTemperatures ==
    UNION {TemperatureText(t) : t \in MinTenths..MaxTenths}
        \cup {"abc", "4e1", " 40.1", "41abc"}
SampleHumidities == {"10", "50", "90"}
SampleSmokeStatuses == {Str("NORMAL"), Str("normal"), Str("FIRE_DETECTED"), Null}

\* a sample whose smoke status field is absent
SampleNoStatus(f1, f2) == Obj([field1 |-> f1, field2 |-> f2])

Samples ==
    {Sample(Str(f1), Str(f2), f4) :
        f1 \in SampleTemperatures, f2 \in SampleHumidities, f4 \in SampleSmokeStatuses}
        \cup {SampleNoStatus(Str(f1), Str(f2)) :
                 f1 \in SampleTemperatures, f2 \in SampleHumidities}

NextSample ==
    \/ Mount /\ UNCHANGED audio
    \/ \E c \in CycleIds, s \in Samples :
          ResumeLast(c, Response(TRUE, s)) /\ UNCHANGED audio
    \/ \E c \in CycleIds, out \in HistoryOutcomes :
          ResumeHistory(c, out) /\ UNCHANGED audio

SpecSample == Init /\ [][NextSample]_vars

(***************************************************************************)
(* The chart projection: one cycle of the poller, run against a history    *)
(* endpoint that answers with any window of Windows (oldest feed first).   *)
(***************************************************************************)
\* new Date(created_at).toLocaleTimeString('es-CL') for the timestamps the
\* channel writes (YYYY-MM-DDTHH:MM:SSZ): the time of day, with the zone of
\* the runtime taken as UTC; anything else is an invalid date
toLocaleTimeString(created_at) ==
    IF /\ created_at.t = "string"
       /\ Len(created_at.v) = 20
       /\ Char(created_at.v, 11) = "T"
       /\ Char(created_at.v, 20) = "Z"
    THEN SubSeq(created_at.v, 12, 19)
    ELSE "Invalid Date"

\* mutant of getChartData: the values that do not parse are filtered out
getChartDataSkippingNaN(hd, fieldKey) ==
    [labels |-> IF Truthy(hd)
                THEN [i \in 1..Len(hd.items) |->
                         toLocaleTimeString(Get(hd.items[i], "created_at"))]
                ELSE <<>>,
     data |-> IF Truthy(hd)
              THEN SelectSeq([i \in 1..Len(hd.items) |->
                                 parseFloat(Get(hd.items[i], fieldKey))],
                             LAMBDA v : v # NaN)
              ELSE <<>>]

\* getChartData(fieldKey, label, color): the labels and the data of the series,
\* for historicalData an array, null or undefined; items.map(f) is the
\* sequence of f(items[i])
getChartData(hd, fieldKey) ==
    [labels |-> IF Truthy(hd)
                THEN [i \in 1..Len(hd.items) |->
                         toLocaleTimeString(Get(hd.items[i], "created_at"))]
                ELSE <<>>,
     data |-> IF Truthy(hd)
              THEN [i \in 1..Len(hd.items) |->
                       parseFloat(Get(hd.items[i], fieldKey))]
              ELSE <<>>]

ChartFields == {"field1", "field2", "field3"}

\* the timestamp of the i-th feed of a window
TimeText(i) == "2025-01-01T10:0" \o ToString(i) \o ":00Z"

FeedReadings ==
    { [field1 |-> Str("25.0"), field2 |-> Str("50"), field3 |-> Str("300")],
      [field1 |-> Str("45"), field2 |-> Str("90"), field3 |-> Str("abc")],
      [field1 |-> Str("41.5"), field2 |-> Str("15"), field3 |-> Null] }

FullFeed(i, r) ==
    Obj([created_at |-> Str(TimeText(i)), field1 |-> r.field1,
         field2 |-> r.field2, field3 |-> r.field3])

Windows ==
    UNION {{Arr([i \in 1..n |-> FullFeed(i, rs[i])]) : rs \in [1..n -> FeedReadings]} :
              n \in 0..MaxWindow}

WindowOutcomes == {Response(TRUE, Obj([feeds |-> w])) : w \in Windows}

NextWindow ==
    \/ Mount /\ UNCHANGED audio
    \/ \E c \in CycleIds, out \in LastOutcomes :
          ResumeLast(c, out) /\ UNCHANGED audio
    \/ \E c \in CycleIds, out \in HistoryOutcomes \cup WindowOutcomes :
          ResumeHistory(c, out) /\ UNCHANGED audio

SpecWindow == Init /\ [][NextWindow]_vars

(***************************************************************************)
(* The variant with the audible alarm (App.jsx 113-356).  Its poller is    *)
(* the same code; it adds an <audio> element, rendered in every branch,    *)
(* and an effect on [lastData] that plays or pauses it.  audio is the      *)
(* element: whether it is playing and its loop attribute.  play() returns  *)
(* a promise that the browser either grants or rejects (autoplay policy,   *)
(* alarm.mp3 not loadable); the code only logs a rejection.  Removing the  *)
(* element from the document pauses it.                                    *)
(*                                                                         *)
(* The JSX of the branch shown when loading is false and error is null     *)
(* reads isTempAlert, isHumidityAlert and isSmokeAlert (lines 298, 303,    *)
(* 308), which this variant declares only inside checkAlertStatus: the     *)
(* render throws a ReferenceError, and with no error boundary React        *)
(* unmounts the tree, running the cleanup of the mount effect.             *)
(***************************************************************************)
\* the audio element after the effect on [lastData] has run for ld
AlarmEffect(ld, a, granted) ==
    IF ~Truthy(ld) THEN a
    ELSE IF checkAlertStatus(ld).isAlert
         THEN [playing |-> a.playing \/ granted, loop |-> TRUE]
         ELSE [playing |-> FALSE, loop |-> a.loop]

\* the latest-sample fetch settles; a mounted component that accepted the
\* sample re-renders and runs the effect on [lastData]
AlarmResumeLast(c, out, granted) ==
    /\ ResumeLast(c, out)
    /\ audio' = IF effect = "active" /\ cycles'[c].pc = "awaitHistory"
                THEN AlarmEffect(lastData', audio, granted)
                ELSE audio

\* the try block of fetchData runs to its end
HistoryAccepted(out) ==
    /\ out.kind = "response"
    /\ out.ok
    /\ out.body # Unparsable
    /\ out.body.t \notin {"null", "undefined"}

\* the history fetch settles; a mounted component that reaches loading false
\* and error null renders the dashboard branch, which throws
AlarmResumeHistory(c, out) ==
    IF effect = "active" /\ HistoryAccepted(out)
    THEN /\ cycles[c].pc = "awaitHistory"
         /\ historicalData' = Get(out.body, "feeds")
         /\ error' = Null
         /\ loading' = FALSE
         /\ cycles' = [cycles EXCEPT ![c] = DoneCycle]
         /\ lastSettled' = c
         /\ lastOutcome' = "ok"
         /\ view' = [Render(lastData, FALSE, Null) EXCEPT !.status = "Crashed"]
         /\ effect' = "crashed"
         /\ interval' = "cleared"
         /\ audio' = [audio EXCEPT !.playing = FALSE]
         /\ UNCHANGED <<lastData, started>>
    ELSE /\ ResumeHistory(c, out)
         /\ UNCHANGED audio

\* the component is unmounted: the interval is cleared, the element removed
AlarmUnmount ==
    /\ Unmount
    /\ audio' = [audio EXCEPT !.playing = FALSE]

NextAlarm ==
    \/ Mount /\ UNCHANGED audio
    \/ Tick /\ UNCHANGED audio
    \/ AlarmUnmount
    \/ \E c \in CycleIds, out \in LastOutcomes, granted \in BOOLEAN :
          AlarmResumeLast(c, out, granted)
    \/ \E c \in CycleIds, out \in HistoryOutcomes : AlarmResumeHistory(c, out)

SpecAlarm == Init /\ [][NextAlarm]_vars

(***************************************************************************)
(* Steps of the poller, as the properties below name them.                 *)
(***************************************************************************)
\* the interval called fetchData (the mount call is the one made while pending)
TickStep == started' = started + 1 /\ effect = "active"
\* call c of fetchData ran to its end in this step
Settles(c) == cycles[c].pc # "done" /\ cycles'[c].pc = "done"
\* call c issued an HTTP fetch in this step
IssuesFetch(c) ==
    /\ cycles'[c].pc \in {"awaitLast", "awaitHistory"}
    /\ cycles'[c].pc # cycles[c].pc

(***************************************************************************)
(* C1: once the effect cleanup has run, no fetch cycle delivers an update  *)
(* of the latest sample, the window, the error or the loading flag, not    *)
(* even a cycle that was in flight at teardown.                            *)
(***************************************************************************)
C1_NoUpdateAfterTeardown ==
    [][effect = "cleaned" => UNCHANGED <<lastData, historicalData, error, loading>>]_vars

(***************************************************************************)
(* C2: once the effect cleanup has run, no HTTP fetch is issued: the timer *)
(* starts no cycle and a cycle in flight does not go on to its history     *)
(* fetch.                                                                  *)
(***************************************************************************)
C2_NoFetchAfterTeardown ==
    [][effect = "cleaned" => \A c \in CycleIds : ~IssuesFetch(c)]_vars

(***************************************************************************)
(* C3: at most one fetch cycle is in flight at any time.                   *)
(***************************************************************************)
C3_AtMostOneCycleInFlight == Cardinality(InFlight) <= 1

(***************************************************************************)
(* C4: a latest record whose temperature field is present but not numeric  *)
(* is dropped: the published latest sample never holds such a record.      *)
(***************************************************************************)
C4_MalformedSampleDropped ==
    Truthy(lastData) => parseFloat(Get(lastData, "field1")) # NaN

(***************************************************************************)
(* C5: a cycle issues its history fetch only after its own latest-sample   *)
(* fetch returned an ok response whose payload passed the validation (an   *)
(* object with a non-empty temperature field); a cycle that ends at its    *)
(* latest-sample fetch leaves the published window unchanged and issues    *)
(* no fetch afterwards.                                                    *)
(***************************************************************************)
PassedValidation(json) ==
    /\ json.t = "object"
    /\ "field1" \in DOMAIN json.props
    /\ json.props.field1 \notin {Null, Undefined, Str(""), Num(0), Bool(FALSE)}

C6_ScheduleNeverStops ==
    effect = "active" =>
        /\ interval = "active"
        /\ started < MaxCycles => ENABLED Tick

C6_Witness ==
    /\ effect = "active"
    /\ lastOutcome = "failed"
    /\ Truthy(error)
    /\ started > lastSettled
    /\ cycles[started].pc = "awaitLast"

(***************************************************************************)
(* C7: a cycle that completes with both fetches successful clears the      *)
(* error and shows the Ready state, and the error shown is always the      *)
(* outcome of the most recently started of the completed cycles.           *)
(***************************************************************************)
C7_ErrorOfNewestCycle ==
    /\ lastOutcome = "ok" => (error = Null /\ view.status = "Ready")
    /\ \A c \in CycleIds : cycles[c].pc = "done" => c <= lastSettled

(***************************************************************************)
(* C8, as stated: every timer tick puts the status back to Loading.        *)
(***************************************************************************)
C8_TickReentersLoading == [][TickStep => view'.status = "Loading"]_vars

(***************************************************************************)
(* C8, amended: the status is Loading until the first cycle has run to its *)
(* end and is not entered again; a step changes the status only when a     *)
(* cycle runs to its end, and the status is then Ready if that cycle       *)
(* succeeded and Failed otherwise.                                         *)
(***************************************************************************)
C8_StatusMachine ==
    /\ [](lastOutcome = "none" => view.status = "Loading")
    /\ [][/\ (\A c \in CycleIds : ~Settles(c)) => view'.status = view.status
          /\ (\E c \in CycleIds : Settles(c)) =>
                view'.status = IF lastOutcome' = "ok" THEN "Ready" ELSE "Failed"]_vars

C8_Witness ==
    /\ view.status = "Ready"
    /\ lastOutcome = "ok"
    /\ started > lastSettled
    /\ cycles[started].pc = "awaitLast"

(***************************************************************************)
(* C9: the cause is the smoke-and-temperature label when both the smoke    *)
(* alert and the temperature alert hold, the smoke label when only the     *)
(* smoke alert holds, the temperature label when only the temperature      *)
(* alert holds and NORMAL when neither holds.                              *)
(***************************************************************************)
C9_CausePrecedence ==
    LET smoke == Truthy(view.isSmokeAlert)
        temp == view.isTempAlert
    IN  /\ (smoke /\ temp) => view.cause = CAUSE_SMOKE_TEMP
        /\ (smoke /\ ~temp) => view.cause = CAUSE_SMOKE
        /\ (~smoke /\ temp) => view.cause = CAUSE_TEMP
        /\ (~smoke /\ ~temp) => view.cause = CAUSE_NORMAL
        /\ view.isAlert <=> (smoke \/ temp)

C9_Witness ==
    /\ Truthy(lastData)
    /\ Get(lastData, "field4") = Str("FIRE_DETECTED")
    /\ Get(lastData, "field1") = Str("40.1")
    /\ view.cause = CAUSE_SMOKE_TEMP

(***************************************************************************)
(* C10: for every temperature t of the latest sample, the temperature      *)
(* alert is raised if and only if t is strictly above the critical         *)
(* temperature; t equal to the threshold raises none.                      *)
(***************************************************************************)
C10_TemperatureAlertStrict ==
    \A t \in MinTenths..MaxTenths :
        (Truthy(lastData) /\ Get(lastData, "field1") \in {Str(x) : x \in TemperatureText(t)})
            => /\ view.isTempAlert <=> (t > 10 * TEMP_CRITICA)
               /\ (view.cause \in {CAUSE_TEMP, CAUSE_SMOKE_TEMP}) <=> (t > 10 * TEMP_CRITICA)

C10_Witness ==
    /\ Truthy(lastData)
    /\ Get(lastData, "field1") \in {Str(x) : x \in TemperatureText(10 * TEMP_CRITICA)}
    /\ ~view.isTempAlert
    /\ view.cause \in {CAUSE_NORMAL, CAUSE_SMOKE}

(***************************************************************************)
(* C11: for every smoke status s of a loaded latest sample, the smoke      *)
(* alert is raised if and only if s is not exactly the string "NORMAL";    *)
(* a differently-cased, null or absent status raises it.                   *)
(***************************************************************************)
\* the smoke status as the JSON body holds it; Undefined if the field is absent
SmokeStatusOf(sample) ==
    IF "field4" \in DOMAIN sample.props THEN sample.props.field4 ELSE Undefined

C11_SmokeAlertExact ==
    Truthy(lastData) =>
        LET isNormal == SmokeStatusOf(lastData) = Str("NORMAL")
        IN  /\ view.isSmokeAlert = Bool(~isNormal)
            /\ (view.cause \in {CAUSE_SMOKE, CAUSE_SMOKE_TEMP}) <=> ~isNormal

C11_Witness ==
    /\ Truthy(lastData)
    /\ SmokeStatusOf(lastData) \in {Str("normal"), Null, Undefined}
    /\ view.isSmokeAlert = Bool(TRUE)
    /\ view.cause = CAUSE_SMOKE

(***************************************************************************)
(* C12: humidity never influences the cause: a sample that agrees with the *)
(* latest sample on temperature and smoke status and differs in humidity   *)
(* gets the same cause, the same alert flag and the same temperature and   *)
(* smoke flags; only the humidity flag may differ.                         *)
(***************************************************************************)
\* the sample with its humidity field replaced
WithHumidity(sample, h) == Obj([sample.props EXCEPT !.field2 = h])

C12_HumidityNotInCause ==
    Truthy(lastData) =>
        \A h \in SampleHumidities :
            LET other == Render(WithHumidity(lastData, Str(h)), loading, error)
            IN  /\ other.cause = view.cause
                /\ other.isAlert = view.isAlert
                /\ other.isTempAlert = view.isTempAlert
                /\ other.isSmokeAlert = view.isSmokeAlert

C12_Witness ==
    /\ Truthy(lastData)
    /\ Get(lastData, "field2") = Str("90")
    /\ view.isHumidityAlert
    /\ view.cause = CAUSE_NORMAL
    /\ ~Render(WithHumidity(lastData, Str("50")), loading, error).isHumidityAlert

(***************************************************************************)
(* C13: every latest-sample fetch that fails its cycle fails it with one   *)
(* of two errors: the channel-has-no-data error (an ok response that is    *)
(* empty, null or lacks the temperature field) or the network error (a     *)
(* response that is not ok, or a fetch that failed).                       *)
(***************************************************************************)
C13_ChannelOrNetworkError ==
    [][\A c \in CycleIds :
          (cycles[c].pc = "awaitLast" /\ Settles(c)) =>
              error' \in {MSG_EMPTY_CHANNEL, MSG_LAST_NOT_OK, MSG_FETCH_REJECTED}]_vars

(***************************************************************************)
(* C14: for every window and every metric field the projected series has   *)
(* as many labels and as many values as the window has feeds, the i-th     *)
(* label and value coming from the i-th feed; a window that is empty or    *)
(* not loaded gives empty labels and empty values.                         *)
(***************************************************************************)
WindowLength == IF historicalData.t = "array" THEN Len(historicalData.items) ELSE 0

C14_SeriesAlignedWithWindow ==
    \A f \in ChartFields :
        LET chart == getChartData(historicalData, f)
        IN  /\ Len(chart.labels) = WindowLength
            /\ Len(chart.data) = WindowLength
            /\ \A i \in 1..WindowLength :
                  /\ chart.labels[i] =
                        toLocaleTimeString(Get(historicalData.items[i], "created_at"))
                  /\ chart.data[i] = parseFloat(Get(historicalData.items[i], f))

C14_Witness ==
    /\ historicalData.t = "array"
    /\ Len(historicalData.items) = 3
    /\ getChartData(historicalData, "field3").data[2] = NaN
    /\ getChartData(historicalData, "field3").labels = <<"10:01:00", "10:02:00", "10:03:00">>
    /\ getChartData(historicalData, "field1").data[1] = Fin(FALSE, 250, -1)

(***************************************************************************)
(* C15: in every reachable state of the two-step poller where loading is   *)
(* false and error is null, the state in which the dashboard dereferences  *)
(* the latest sample, lastData is non-null and has a temperature field,    *)
(* whatever cycles succeeded, failed or overlapped before.                 *)
(***************************************************************************)
C15_ReadyHasSample ==
    (~loading /\ error = Null) =>
        /\ Truthy(lastData)
        /\ "field1" \in DOMAIN lastData.props
        /\ Truthy(Get(lastData, "field1"))

C15_Witness ==
    /\ ~loading
    /\ error = Null
    /\ view.status = "Ready"
    /\ lastSettled < started
    /\ \E c \in CycleIds : c < lastSettled /\ cycles[c].pc # "done"
    /\ lastData.props.field1 = Str("25.0")

(***************************************************************************)
(* C16: whenever a mounted component accepts a latest sample, the alarm    *)
(* is afterwards playing in a loop if and only if checkAlertStatus reports *)
(* an alert for that sample; a cycle that ends in the catch block leaves   *)
(* lastData and the alarm as they were.                                    *)
(***************************************************************************)
AcceptsSample(c) == cycles[c].pc = "awaitLast" /\ cycles'[c].pc = "awaitHistory"

C16_AlarmFollowsSample ==
    [][\A c \in CycleIds :
          /\ (effect = "active" /\ AcceptsSample(c)) =>
                ((audio'.playing /\ audio'.loop) <=> checkAlertStatus(lastData').isAlert)
          /\ (Settles(c) /\ lastOutcome' = "failed") =>
                (lastData' = lastData /\ audio' = audio)]_vars
====
